---- MODULE Spec2Model ----
(***************************************************************************)
(* Model of the change-detection and reaction engine of                    *)
(* src/runner.py (class ScriptRunner): the polling thread (watch_loop /    *)
(* _check_for_changes), the Tk main thread (button handlers and the        *)
(* callbacks queued with root.after), the script threads (_run_script.run) *)
(* and the metadata threads (_generate_metadata.generate).                 *)
(*                                                                         *)
(* Files are named by short strings.  A modification time is a positive    *)
(* integer that grows with every write of the file; 0 stands for "no such   *)
(* key" in the dictionaries last_input_scan, last_output_scan and           *)
(* script_mtimes.                                                           *)
(***************************************************************************)
EXTENDS Integers, Sequences, FiniteSets, TLC

(* ------------------------------ bounds -------------------------------- *)

\* writes of one file in one behaviour (also its largest st_mtime)
MaxMtime == 2

\* user actions that start work, in one behaviour: folder selections, clicks
\* on Run and on Metadata
MaxOps == 2

\* seconds the clock advances in one behaviour
MaxTicks == 2

(* -------------------------- program constants ------------------------- *)

\* runner.py:543  "current_time - self.last_refresh_time > 2"
Debounce == 2

InputFiles == {"in1"}
OutputFiles == {"out1"}
Scripts == {"s1", "s2", "s3"}
DataFiles == InputFiles \cup OutputFiles
Files == DataFiles \cup Scripts

\* sorted(...) order of the script paths (runner.py:304)
ScriptSeq == <<"s1", "s2", "s3">>

\* return codes of a script that ran to its end
ExitCodes == {0, 1}

\* the files a folder handed to _scan_folder_metadata may hold
ReportFiles == {"a.csv", "b.csv", "D.CSV", "n.txt"}

VARIABLES
    onDisk,           \* the files that exist
    mtime,            \* file -> st_mtime of its last write, 0 when it was never written
    ops,              \* user actions that start work, so far
    now,              \* time.time(), in seconds
    HAS_PANDAS,       \* runner.py:20-24
    project,          \* self.project_folder is set
    auto_run_var,     \* self.auto_run_var
    watching,         \* self.watching
    closed,           \* root.destroy() was called
    script_vars,      \* keys of self.script_vars (the displayed scripts)
    script_mtimes,    \* self.script_mtimes
    last_input_scan,  \* self.last_input_scan
    last_output_scan, \* self.last_output_scan
    last_refresh_time,\* self.last_refresh_time
    status,           \* text of self.status_label
    ui_out,           \* lines the last main-thread handler wrote with _log
    uiQueue,          \* callbacks queued with root.after(0, ...), in order
    delayedMeta,      \* pending root.after(100, self._generate_metadata) timers
    running,          \* script -> number of live _run_script.run threads
    metaThreads,      \* number of live _generate_metadata.generate threads
    pollpc,           \* position of the watch_loop thread
    todo,             \* files of the current glob not yet visited
    data_changed,     \* local of _check_for_changes
    scripts_changed,  \* local of _check_for_changes
    touched,          \* history: data files written or deleted since the cycle began
    autoOn,           \* history: auto-run was on at some moment of the current cycle
    owed,             \* history: tracked scripts modified under auto-run, run not yet scheduled
    disc,             \* history: the last two discoveries of new scripts by the poller
    cycle_end,        \* history: how the last call of _check_for_changes ended
    win32,            \* sys.platform == "win32" (runner.py:575)
    folder,           \* file of the scanned folder -> "absent", "good" or "corrupt"
    report,           \* the lines the last _scan_folder_metadata returned
    runs,             \* history: scans of the folder since its last change, up to 2
    checking,         \* the script the poller has tested and not yet recorded
    watch_threads     \* live watch_loop threads

vars == <<onDisk, mtime, ops, now, HAS_PANDAS, project, auto_run_var, watching,
          closed, script_vars, script_mtimes, last_input_scan, last_output_scan,
          last_refresh_time, status, ui_out, uiQueue, delayedMeta, running,
          metaThreads, pollpc, todo, data_changed, scripts_changed,
          touched, autoOn, owed, disc, cycle_end,
          win32, folder, report, runs, checking, watch_threads>>

envVars == <<onDisk, mtime, now>>
uiVars == <<project, auto_run_var, watching, closed, script_vars, status, ui_out>>
snapVars == <<last_input_scan, last_output_scan>>
scriptVars == <<script_mtimes, last_refresh_time>>
taskVars == <<uiQueue, delayedMeta, running, metaThreads>>
pollVars == <<pollpc, todo, data_changed, scripts_changed, checking>>
histVars == <<touched, autoOn, owed, disc, cycle_end>>
scanVars == <<win32, folder, report, runs>>

(* ------------------------------ messages ------------------------------ *)

\* a line for _log or a text for _set_status
Msg(m, s, c) == [msg |-> m, s |-> s, code |-> c]

\* a callback queued with root.after(0, ...); by names the outcome of the
\* script run that queued it ("-" for every other caller)
Ev(k, m, by) == [k |-> k, m |-> m, by |-> by]

LogEv(m) == Ev("log", m, "-")
StatusEv(m) == Ev("status", m, "-")
RefreshEv == Ev("refresh", Msg("-", "-", 0), "-")
MetaEv == Ev("genmeta", Msg("-", "-", 0), "-")
RunEv(s) == Ev("run", Msg("-", s, 0), "-")

Range(q) == {q[i] : i \in 1..Len(q)}

RECURSIVE Concat(_)
Concat(qs) == IF qs = <<>> THEN <<>> ELSE Head(qs) \o Concat(Tail(qs))

\* the orders in which a glob may yield the files of S
Orders(S) ==
    {q \in [1..Cardinality(S) -> S] : \A i, j \in 1..Cardinality(S) : q[i] = q[j] => i = j}

\* checking when the poller is not between the tests and the assignments
\* of one pass of its script loop
NotChecking == [key |-> "-", mtime |-> 0, tracked |-> FALSE]

(* ------------------------------- Init --------------------------------- *)

\* runner.py:28-72 (__init__): nothing selected, nothing watched.  The files
\* the folders hold before the program starts have st_mtime 1.
Init ==
    /\ onDisk \in SUBSET Files
    /\ mtime = [f \in Files |-> IF f \in onDisk THEN 1 ELSE 0]
    /\ ops = 0
    /\ now = Debounce + 1
    /\ HAS_PANDAS \in BOOLEAN
    /\ project = FALSE
    /\ auto_run_var = FALSE
    /\ watching = FALSE
    /\ closed = FALSE
    /\ script_vars = {}
    /\ script_mtimes = [s \in Scripts |-> 0]
    /\ last_input_scan = [f \in InputFiles |-> 0]
    /\ last_output_scan = [f \in OutputFiles |-> 0]
    /\ last_refresh_time = 0
    /\ status = Msg("Select a project folder to begin", "-", 0)
    /\ ui_out = <<>>
    /\ uiQueue = <<>>
    /\ delayedMeta = 0
    /\ running = [s \in Scripts |-> 0]
    /\ metaThreads = 0
    /\ pollpc = "none"
    /\ todo = {}
    /\ data_changed = FALSE
    /\ scripts_changed = <<>>
    /\ touched = {}
    /\ autoOn = FALSE
    /\ owed = {}
    /\ disc = <<>>
    /\ cycle_end = "none"
    /\ win32 \in BOOLEAN
    /\ folder = [f \in ReportFiles |-> "absent"]
    /\ report = <<>>
    /\ runs = 0
    /\ checking = NotChecking
    /\ watch_threads = 0

(* ---------------------------- environment ----------------------------- *)

\* a file is created or rewritten: its st_mtime becomes a fresh value
Touch(f) ==
    /\ ~closed
    /\ project
    /\ mtime[f] < MaxMtime
    /\ mtime' = [mtime EXCEPT ![f] = @ + 1]
    /\ onDisk' = onDisk \cup {f}
    /\ touched' = IF f \in DataFiles THEN touched \cup {f} ELSE touched
    /\ owed' = IF f \in Scripts /\ f \in onDisk /\ script_mtimes[f] # 0 /\ auto_run_var
               THEN owed \cup {f} ELSE owed
    /\ UNCHANGED <<now, ops, HAS_PANDAS, scanVars, watch_threads, uiVars, snapVars, scriptVars, taskVars,
                   pollVars, autoOn, disc, cycle_end>>

\* a file is deleted
Delete(f) ==
    /\ ~closed
    /\ project
    /\ f \in onDisk
    /\ onDisk' = onDisk \ {f}
    /\ touched' = IF f \in DataFiles THEN touched \cup {f} ELSE touched
    /\ owed' = owed \ {f}
    /\ UNCHANGED <<mtime, now, ops, HAS_PANDAS, scanVars, watch_threads, uiVars, snapVars, scriptVars, taskVars,
                   pollVars, autoOn, disc, cycle_end>>

\* a second passes
Tick ==
    /\ ~closed
    /\ project
    /\ now < Debounce + 1 + MaxTicks
    /\ now' = now + 1
    /\ UNCHANGED <<onDisk, mtime, ops, HAS_PANDAS, scanVars, watch_threads, uiVars, snapVars, scriptVars,
                   taskVars, pollVars, histVars>>

(* ----------------------- main-thread operations ------------------------ *)

\* runner.py:294-315 (_refresh_scripts), with p = "scripts_folder is set":
\* the displayed scripts become the .py files on disk, and the tracked time
\* of each of them becomes its current st_mtime.  Keys of files that are gone
\* stay in script_mtimes.
RefreshedVars(p) == IF p THEN Scripts \cap onDisk ELSE {}

RefreshedMtimes(p) ==
    [s \in Scripts |-> IF p /\ s \in onDisk THEN mtime[s] ELSE script_mtimes[s]]

\* a variant of ScriptExists that skips the test of runner.py:348
ScriptExistsUnchecked(s) == TRUE

\* runner.py:348 (script.exists())
ScriptExists(s) == s \in onDisk

\* runner.py:344-356 (_run_script): the lines it logs
RunLines(s) ==
    IF ScriptExists(s) THEN <<Msg("Running", s, 0)>>
    ELSE <<Msg("Script not found", s, 0)>>

\* runner.py:387: threads _run_script starts for s
RunStarts(s) == IF ScriptExists(s) THEN 1 ELSE 0

\* runner.py:389-396 (_generate_metadata), with p = "project_folder is set"
MetaLines(p) ==
    IF ~HAS_PANDAS THEN <<Msg("pandas not installed - metadata skipped", "-", 0)>>
    ELSE <<>>

\* runner.py:416: threads _generate_metadata starts
MetaStarts(p) == IF HAS_PANDAS /\ p THEN 1 ELSE 0

\* runner.py:493-503 (_scan_data_folders)
ScannedSnapshot(snap, files) ==
    [f \in files |-> IF f \in onDisk THEN mtime[f] ELSE snap[f]]

\* a variant of AlreadyWatching without the test of runner.py:477
AlreadyWatchingNever == FALSE

\* runner.py:477-478: _start_watching returns when a polling thread was started
AlreadyWatching == watching

\* runner.py:258-292 (_select_folder, _setup_folder_structure): the folders are
\* created, the scripts are listed, a metadata generation starts and, unless
\* a polling thread was started before, the data folders are scanned and the
\* polling thread starts (_start_watching, runner.py:475-491).
SelectFolder ==
    /\ ~closed
    /\ ops < MaxOps
    /\ ops' = ops + 1
    /\ project' = TRUE
    /\ script_vars' = RefreshedVars(TRUE)
    /\ script_mtimes' = RefreshedMtimes(TRUE)
    /\ metaThreads' = metaThreads + MetaStarts(TRUE)
    /\ IF AlreadyWatching
       THEN UNCHANGED <<watching, snapVars, pollpc, watch_threads>>
       ELSE /\ watching' = TRUE
            /\ watch_threads' = watch_threads + 1
            /\ last_input_scan' = ScannedSnapshot(last_input_scan, InputFiles)
            /\ last_output_scan' = ScannedSnapshot(last_output_scan, OutputFiles)
            /\ pollpc' = "loop"
    /\ touched' = IF watching THEN touched ELSE {}
    /\ owed' = {}
    /\ ui_out' = <<Msg("Opened", "-", 0)>> \o MetaLines(TRUE)
                 \o <<Msg("Opening VibeFoundry Assistant", "-", 0),
                      Msg("Browser opened", "-", 0)>>
    /\ status' = Msg("Ready - Watching for changes", "-", 0)
    /\ UNCHANGED <<envVars, HAS_PANDAS, scanVars, auto_run_var, closed,
                   last_refresh_time, uiQueue, delayedMeta, running, todo,
                   data_changed, scripts_changed, checking, autoOn, disc, cycle_end>>

\* the auto-run check box (runner.py:175)
ToggleAutoRun ==
    /\ ~closed
    /\ auto_run_var' = ~auto_run_var
    /\ autoOn' = (autoOn \/ ~auto_run_var)
    /\ owed' = IF auto_run_var THEN {} ELSE owed
    /\ UNCHANGED <<envVars, ops, HAS_PANDAS, scanVars, watch_threads, project, watching, closed, script_vars,
                   status, ui_out, snapVars, scriptVars, taskVars, pollVars,
                   touched, disc, cycle_end>>

\* the Refresh button (runner.py:166)
ClickRefresh ==
    /\ ~closed
    /\ script_vars' = RefreshedVars(project)
    /\ script_mtimes' = RefreshedMtimes(project)
    /\ ui_out' = <<>>
    /\ UNCHANGED <<envVars, ops, HAS_PANDAS, scanVars, watch_threads, project, auto_run_var, watching, closed,
                   status, snapVars, last_refresh_time, taskVars, pollVars, histVars>>

\* the Metadata button (runner.py:167)
ClickMetadata ==
    /\ ~closed
    /\ ops < MaxOps
    /\ ops' = ops + 1
    /\ metaThreads' = metaThreads + MetaStarts(project)
    /\ ui_out' = MetaLines(project)
    /\ UNCHANGED <<envVars, HAS_PANDAS, scanVars, watch_threads, project, auto_run_var, watching, closed,
                   script_vars, status, snapVars, scriptVars, uiQueue, delayedMeta,
                   running, pollVars, histVars>>

\* the scripts of sel in the order of the list (runner.py:335)
InOrder(sel) == LET Picked(s) == s \in sel IN SelectSeq(ScriptSeq, Picked)

\* the last script of sel that exists, "-" when none does
LastStarted(sel) ==
    LET q == InOrder(sel \cap {s \in Scripts : ScriptExists(s)})
    IN IF q = <<>> THEN "-" ELSE q[Len(q)]

\* the Run button (runner.py:333-342) with the scripts of sel checked:
\* _run_script for each of them, in the order of the list
ClickRun(sel) ==
    /\ ~closed
    /\ ops < MaxOps
    /\ sel # {}
    /\ sel \subseteq script_vars
    /\ ops' = ops + 1
    /\ ui_out' = Concat([i \in 1..Len(InOrder(sel)) |-> RunLines(InOrder(sel)[i])])
    /\ running' = [s \in Scripts |-> running[s] + IF s \in sel THEN RunStarts(s) ELSE 0]
    /\ status' = IF LastStarted(sel) = "-" THEN status
                 ELSE Msg("Running", LastStarted(sel), 0)
    /\ UNCHANGED <<envVars, HAS_PANDAS, scanVars, watch_threads, project, auto_run_var, watching, closed,
                   script_vars, snapVars, scriptVars, uiQueue, delayedMeta,
                   metaThreads, pollVars, histVars>>

\* runner.py:592-595 (_on_close): the stop flag is set and the window is
\* destroyed, which drops the callbacks still queued
OnClose ==
    /\ ~closed
    /\ watching' = FALSE
    /\ closed' = TRUE
    /\ uiQueue' = <<>>
    /\ delayedMeta' = 0
    /\ UNCHANGED <<envVars, ops, HAS_PANDAS, scanVars, watch_threads, project, auto_run_var, script_vars, status,
                   ui_out, snapVars, scriptVars, running, metaThreads, pollVars,
                   histVars>>

\* runner.py:595-599, 616: root.destroy() ends mainloop, run() returns and
\* the interpreter exits. Every thread is started with daemon=True
\* (runner.py:387, 416, 491), so the exit does not wait for the threads:
\* they end with the process, wherever they are.
ProcessExit ==
    /\ closed
    /\ \/ pollpc \notin {"none", "dead"}
       \/ metaThreads > 0
       \/ \E s \in Scripts : running[s] > 0
    /\ running' = [s \in Scripts |-> 0]
    /\ metaThreads' = 0
    /\ watch_threads' = 0
    /\ pollpc' = IF pollpc = "none" THEN "none" ELSE "dead"
    /\ todo' = {}
    /\ data_changed' = FALSE
    /\ scripts_changed' = <<>>
    /\ checking' = NotChecking
    /\ UNCHANGED <<envVars, ops, HAS_PANDAS, scanVars, uiVars, snapVars, scriptVars,
                   uiQueue, delayedMeta, histVars>>

(* ------------------ callbacks queued with root.after ------------------- *)

HeadIs(k) == ~closed /\ uiQueue # <<>> /\ Head(uiQueue).k = k

\* lambda: self._log(...)
UiLog ==
    /\ HeadIs("log")
    /\ uiQueue' = Tail(uiQueue)
    /\ ui_out' = <<Head(uiQueue).m>>
    /\ UNCHANGED <<envVars, ops, HAS_PANDAS, scanVars, watch_threads, project, auto_run_var, watching,
                   closed, script_vars, status, snapVars, scriptVars, delayedMeta,
                   running, metaThreads, pollVars, histVars>>

\* lambda: self._log(f"... {e}") of an except clause (runner.py:384, 414).
\* Python unbinds e when the except clause ends, so the lambda logs the line
\* only if it runs before the thread leaves the clause; after that it raises
\* NameError inside the Tk callback and nothing is logged.
UiLogExc(bound) ==
    /\ HeadIs("log_e")
    /\ uiQueue' = Tail(uiQueue)
    /\ ui_out' = IF bound THEN <<Head(uiQueue).m>> ELSE <<>>
    /\ UNCHANGED <<envVars, ops, HAS_PANDAS, scanVars, watch_threads, project, auto_run_var, watching,
                   closed, script_vars, status, snapVars, scriptVars, delayedMeta,
                   running, metaThreads, pollVars, histVars>>

\* lambda: self._set_status(...)
UiStatus ==
    /\ HeadIs("status")
    /\ uiQueue' = Tail(uiQueue)
    /\ status' = Head(uiQueue).m
    /\ ui_out' = <<>>
    /\ UNCHANGED <<envVars, ops, HAS_PANDAS, scanVars, watch_threads, project, auto_run_var, watching,
                   closed, script_vars, snapVars, scriptVars, delayedMeta,
                   running, metaThreads, pollVars, histVars>>

\* self._refresh_scripts, queued by the poller (runner.py:545)
UiRefresh ==
    /\ HeadIs("refresh")
    /\ uiQueue' = Tail(uiQueue)
    /\ script_vars' = RefreshedVars(project)
    /\ script_mtimes' = RefreshedMtimes(project)
    /\ ui_out' = <<>>
    /\ UNCHANGED <<envVars, ops, HAS_PANDAS, scanVars, watch_threads, project, auto_run_var, watching,
                   closed, status, snapVars, last_refresh_time, delayedMeta,
                   running, metaThreads, pollVars, histVars>>

\* self._generate_metadata, queued by the poller (runner.py:550)
UiGenerateMetadata ==
    /\ HeadIs("genmeta")
    /\ uiQueue' = Tail(uiQueue)
    /\ metaThreads' = metaThreads + MetaStarts(project)
    /\ ui_out' = MetaLines(project)
    /\ UNCHANGED <<envVars, ops, HAS_PANDAS, scanVars, watch_threads, project, auto_run_var, watching,
                   closed, script_vars, status, snapVars, scriptVars, delayedMeta,
                   running, pollVars, histVars>>

\* lambda p=script_path: self._run_script(p), queued by the poller (runner.py:556)
UiRunScript ==
    /\ HeadIs("run")
    /\ LET s == Head(uiQueue).m.s IN
        /\ uiQueue' = Tail(uiQueue)
        /\ ui_out' = RunLines(s)
        /\ running' = [running EXCEPT ![s] = @ + RunStarts(s)]
        /\ status' = IF RunStarts(s) = 1 THEN Msg("Running", s, 0) ELSE status
    /\ UNCHANGED <<envVars, ops, HAS_PANDAS, scanVars, watch_threads, project, auto_run_var, watching,
                   closed, script_vars, snapVars, scriptVars, delayedMeta,
                   metaThreads, pollVars, histVars>>

\* the timer of root.after(100, self._generate_metadata) fires (runner.py:378)
DelayedMetadata ==
    /\ ~closed
    /\ delayedMeta > 0
    /\ delayedMeta' = delayedMeta - 1
    /\ metaThreads' = metaThreads + MetaStarts(project)
    /\ ui_out' = MetaLines(project)
    /\ UNCHANGED <<envVars, ops, HAS_PANDAS, scanVars, watch_threads, project, auto_run_var, watching,
                   closed, script_vars, status, snapVars, scriptVars, uiQueue,
                   running, pollVars, histVars>>

(* --------------------------- script threads --------------------------- *)

\* what subprocess.run can end with (runner.py:360-385)
Outcomes ==
    [kind : {"exit"}, rc : ExitCodes, out : BOOLEAN, err : BOOLEAN]
    \cup {[kind |-> k, rc |-> 0, out |-> FALSE, err |-> FALSE] : k \in {"timeout", "error"}}

\* the name of an outcome, carried by the callbacks it queues
Tag(o) ==
    IF o.kind = "exit" THEN (IF o.rc = 0 THEN "exit0" ELSE "exitN") ELSE o.kind

\* runner.py:373
StatusText(rc) ==
    IF rc = 0 THEN Msg("Completed", "-", 0) ELSE Msg("Failed (code n)", "-", rc)

\* a variant of RunReport that reports every abnormal end as a failed exit
RunReportAsFailure(o) ==
    LET rc == IF o.kind = "exit" THEN o.rc ELSE 1
    IN <<Ev("log", StatusText(rc), Tag(o)), Ev("status", StatusText(rc), Tag(o))>>

\* runner.py:368-385: the callbacks run() queues for outcome o
RunReport(o) ==
    IF o.kind = "exit" THEN
        (IF o.out THEN <<Ev("log", Msg("stdout", "-", 0), Tag(o))>> ELSE <<>>)
        \o (IF o.err THEN <<Ev("log", Msg("stderr", "-", 0), Tag(o))>> ELSE <<>>)
        \o <<Ev("log", StatusText(o.rc), Tag(o)), Ev("status", StatusText(o.rc), Tag(o))>>
    ELSE IF o.kind = "timeout" THEN
        <<Ev("log", Msg("Script timed out (5 min limit)", "-", 0), Tag(o)),
          Ev("status", Msg("Timed out", "-", 0), Tag(o))>>
    ELSE
        <<Ev("log_e", Msg("Error", "-", 0), Tag(o)),
          Ev("status", Msg("Error", "-", 0), Tag(o))>>

\* runner.py:378: the delayed metadata generations run() asks for
RunMetaRequests(o) == IF o.kind = "exit" THEN 1 ELSE 0

\* a run() thread of script s ends with outcome o
RunFinish(s, o) ==
    /\ ~closed
    /\ running[s] > 0
    /\ running' = [running EXCEPT ![s] = @ - 1]
    /\ uiQueue' = uiQueue \o RunReport(o)
    /\ delayedMeta' = delayedMeta + RunMetaRequests(o)
    /\ UNCHANGED <<envVars, ops, HAS_PANDAS, scanVars, watch_threads, uiVars, snapVars, scriptVars,
                   metaThreads, pollVars, histVars>>

(* -------------------------- metadata threads -------------------------- *)

\* runner.py:398-414: the callbacks generate() queues
MetaReport(ok) ==
    IF ok THEN <<LogEv(Msg("Metadata updated", "-", 0)),
                 StatusEv(Msg("Metadata updated", "-", 0))>>
    ELSE <<Ev("log_e", Msg("Metadata error", "-", 0), "-")>>

\* a generate() thread ends: both reports written, or an exception
MetaFinish(ok) ==
    /\ ~closed
    /\ metaThreads > 0
    /\ metaThreads' = metaThreads - 1
    /\ uiQueue' = uiQueue \o MetaReport(ok)
    /\ UNCHANGED <<envVars, ops, HAS_PANDAS, scanVars, watch_threads, uiVars, snapVars, scriptVars,
                   delayedMeta, running, pollVars, histVars>>

(* --------------------------- metadata report -------------------------- *)
(* _scan_folder_metadata over one folder.  What a scan reads of a file is    *)
(* its name and whether pandas can read it; a line of the report is a        *)
(* record [t, f, n]: its kind, the file it is about, a number.               *)

\* runner.py:428
data_extensions == <<".csv", ".xlsx", ".xls", ".parquet">>

\* Path.suffix
Suffix(f) ==
    CASE f \in {"a.csv", "b.csv"} -> ".csv"
      [] f = "D.CSV" -> ".CSV"
      [] OTHER -> ".txt"

\* str.lower of a suffix
Lower(x) == IF x = ".CSV" THEN ".csv" ELSE x

\* runner.py:431: folder.glob(f"**/*{ext}") yields f.  pathlib matches a
\* pattern with regard to case on POSIX and without on Windows.
GlobMatches(f, ext) ==
    /\ folder[f] # "absent"
    /\ (IF win32 THEN Lower(Suffix(f)) ELSE Suffix(f)) = ext

\* the files some pattern of data_extensions matches
Matched ==
    {f \in ReportFiles : \E i \in DOMAIN data_extensions : GlobMatches(f, data_extensions[i])}

\* runner.py:429-431: data_files, the matches of each pattern in turn, each
\* glob yielding its files in the order they have in q
GlobbedFiles(q) ==
    Concat([i \in DOMAIN data_extensions |->
              LET Hit(f) == GlobMatches(f, data_extensions[i]) IN SelectSeq(q, Hit)])

\* the place of a path in the order of Path.__lt__: by the characters on
\* POSIX, by the lower-case characters on Windows
PathKey(f) ==
    CASE f = "a.csv" -> 1
      [] f = "b.csv" -> 2
      [] f = "D.CSV" -> (IF win32 THEN 3 ELSE 0)
      [] OTHER -> 4

RECURSIVE Insert(_, _)
Insert(f, q) ==
    IF q = <<>> THEN <<f>>
    ELSE IF PathKey(f) <= PathKey(Head(q)) THEN <<f>> \o q
    ELSE <<Head(q)>> \o Insert(f, Tail(q))

\* a variant of Sorted that leaves the list as the globs gave it
Unsorted(q) == q

\* runner.py:437: sorted(data_files)
RECURSIVE Sorted(_)
Sorted(q) == IF q = <<>> THEN <<>> ELSE Insert(Head(q), Sorted(Tail(q)))

Line(t, f, n) == [t |-> t, f |-> f, n |-> n]

\* runner.py:420-426
Header(title) ==
    <<Line("title", title, 0), Line("Folder", "-", 0), Line("Generated", "-", now),
      Line("rule", "-", 0), Line("", "-", 0)>>

\* runner.py:438-471: the lines of one file.  The suffix is compared as it
\* is written (runner.py:441-453); a read that fails is caught and recorded
\* (runner.py:468-471).
Block(f) ==
    IF Suffix(f) \notin Range(data_extensions) THEN <<>>
    ELSE IF folder[f] = "corrupt"
    THEN <<Line("File", f, 0), Line("Error reading", f, 0), Line("", "-", 0)>>
    ELSE <<Line("File", f, 0), Line("Absolute Path", f, 0), Line("Size", f, 0),
           Line("Rows", f, 0), Line("Columns", f, 1), Line("column", f, 1),
           Line("", "-", 0)>>

\* a variant of ScanFolderMetadata without the branch of runner.py:433-435
ScanWithoutMarker(title, q) ==
    LET files == Sorted(GlobbedFiles(q))
    IN Header(title) \o Concat([i \in DOMAIN files |-> Block(files[i])])

\* runner.py:418-473 (_scan_folder_metadata), the globs yielding in the order q
ScanFolderMetadata(title, q) ==
    LET files == Sorted(GlobbedFiles(q))
    IN IF GlobbedFiles(q) = <<>>
       THEN Header(title) \o <<Line("No data files found.", "-", 0)>>
       ELSE Header(title) \o Concat([i \in DOMAIN files |-> Block(files[i])])

\* a file of the folder is created or rewritten with content c
WriteData(f, c) ==
    /\ ~closed
    /\ project
    /\ folder[f] # c
    /\ folder' = [folder EXCEPT ![f] = c]
    /\ runs' = 0
    /\ UNCHANGED <<envVars, ops, HAS_PANDAS, win32, report, watch_threads, uiVars,
                   snapVars, scriptVars, taskVars, pollVars, histVars>>

\* a file of the folder is deleted
RemoveData(f) ==
    /\ ~closed
    /\ project
    /\ folder[f] # "absent"
    /\ folder' = [folder EXCEPT ![f] = "absent"]
    /\ runs' = 0
    /\ UNCHANGED <<envVars, ops, HAS_PANDAS, win32, report, watch_threads, uiVars,
                   snapVars, scriptVars, taskVars, pollVars, histVars>>

\* runner.py:401: a generate() thread calls _scan_folder_metadata
MetaScan(q) ==
    /\ ~closed
    /\ metaThreads > 0
    /\ q \in Orders(Matched)
    /\ report' = ScanFolderMetadata("Input Folder", q)
    /\ runs' = IF runs < 2 THEN runs + 1 ELSE 2
    /\ UNCHANGED <<envVars, ops, HAS_PANDAS, win32, folder, watch_threads, uiVars,
                   snapVars, scriptVars, taskVars, pollVars, histVars>>

(* --------------------------- polling thread --------------------------- *)
(* pollpc: "none"     no thread yet                                         *)
(*         "loop"     at the while test of watch_loop (runner.py:484)       *)
(*         "sleep"    in time.sleep(1) (runner.py:489)                      *)
(*         "scripts"  scripts_folder.glob is taken, its loop not yet run    *)
(*                    (runner.py:532)                                       *)
(*         "dispatch" before runner.py:548                                  *)
(*         "dead"     watch_loop has returned                               *)
(* The scan of the two data folders is one step: each file is read once,    *)
(* and a write to a file commutes with the reads of the others.             *)

Present(files) == files \cap onDisk

\* a variant of PollAbort without the try of runner.py:485: the exception
\* ends watch_loop
PollAbortUncaught ==
    /\ pollpc' = "dead"
    /\ todo' = {}
    /\ data_changed' = FALSE
    /\ scripts_changed' = <<>>
    /\ checking' = NotChecking

\* runner.py:485-489: an exception raised inside _check_for_changes is caught
\* by watch_loop, printed to stdout, and the loop goes on with time.sleep;
\* the locals of the abandoned call are gone
PollAbort ==
    /\ pollpc' = "sleep"
    /\ todo' = {}
    /\ data_changed' = FALSE
    /\ scripts_changed' = <<>>
    /\ checking' = NotChecking

\* runner.py:486, 489: _check_for_changes returns and the loop goes on with
\* time.sleep
PollReturn ==
    /\ pollpc' = "sleep"
    /\ todo' = {}
    /\ data_changed' = FALSE
    /\ scripts_changed' = <<>>
    /\ checking' = NotChecking

\* runner.py:489: time.sleep(1); the second passes while the thread sleeps
PollSleep ==
    /\ pollpc = "sleep"
    /\ now < Debounce + 1 + MaxTicks
    /\ now' = now + 1
    /\ pollpc' = "loop"
    /\ UNCHANGED <<onDisk, mtime, ops, HAS_PANDAS, scanVars, watch_threads, uiVars,
                   snapVars, scriptVars, taskVars, todo, data_changed,
                   scripts_changed, checking, histVars>>

\* a variant of DataDiffers that only knows new files
DataDiffersNewOnly(snap, f) == snap[f] = 0

\* runner.py:516, 526: the file is new to the snapshot or its time differs
DataDiffers(snap, f) == snap[f] = 0 \/ snap[f] # mtime[f]

\* runner.py:512-518, 522-528: the snapshot after the loop over the files in
\* seen (a file that is gone fails is_file() and is skipped)
Rescanned(snap, seen) ==
    [f \in DOMAIN snap |->
        IF f \in seen /\ f \in onDisk /\ DataDiffers(snap, f) THEN mtime[f] ELSE snap[f]]

\* runner.py:518, 528: data_changed after the loop over the files in seen
AnyDataChange(seen) ==
    \/ \E f \in seen \cap Present(InputFiles) : DataDiffers(last_input_scan, f)
    \/ \E f \in seen \cap Present(OutputFiles) : DataDiffers(last_output_scan, f)

\* a variant of ScanScripts that ignores the auto-run option
ScanScriptsAlways == TRUE

\* runner.py:531: the scripts folder is scanned only under auto-run
ScanScripts == auto_run_var

\* runner.py:484, 505-532: the while test holds and _check_for_changes scans
\* the input folder, then the output folder, then lists the scripts folder
\* if auto-run is on
PollBegin ==
    /\ pollpc = "loop"
    /\ watching
    /\ last_input_scan' = Rescanned(last_input_scan, InputFiles)
    /\ last_output_scan' = Rescanned(last_output_scan, OutputFiles)
    /\ data_changed' = AnyDataChange(DataFiles)
    /\ scripts_changed' = <<>>
    /\ IF ScanScripts
       THEN pollpc' = "scripts" /\ todo' = Present(Scripts)
       ELSE pollpc' = "dispatch" /\ todo' = {}
    /\ touched' = {}
    /\ autoOn' = auto_run_var
    /\ UNCHANGED <<envVars, ops, HAS_PANDAS, scanVars, watch_threads, uiVars,
                   scriptVars, taskVars, checking, owed, disc, cycle_end>>

\* runner.py:484: the while test fails, the thread ends
PollExit ==
    /\ pollpc = "loop"
    /\ ~watching
    /\ pollpc' = "dead"
    /\ watch_threads' = watch_threads - 1
    /\ UNCHANGED <<envVars, ops, HAS_PANDAS, scanVars, uiVars, snapVars, scriptVars,
                   taskVars, todo, data_changed, scripts_changed, checking,
                   histVars>>

\* runner.py:513-514, 523-524: file f is deleted between f.is_file() and
\* f.stat(), and stat raises FileNotFoundError.  The files in seen were
\* visited before f: files of the same folder, and every input file when f
\* is an output file.
PollDataStatError(f, seen) ==
    /\ pollpc = "loop"
    /\ watching
    /\ f \in onDisk
    /\ f \notin seen
    /\ IF f \in InputFiles THEN seen \subseteq InputFiles ELSE InputFiles \subseteq seen
    /\ onDisk' = onDisk \ {f}
    /\ last_input_scan' = Rescanned(last_input_scan, seen \cap InputFiles)
    /\ last_output_scan' = Rescanned(last_output_scan, seen \cap OutputFiles)
    /\ touched' = touched \cup {f}
    /\ PollAbort
    /\ cycle_end' = "raised"
    /\ UNCHANGED <<mtime, now, ops, HAS_PANDAS, scanVars, watch_threads, uiVars, scriptVars, taskVars, autoOn,
                   owed, disc>>

\* a variant of IsTracked that takes every script of the glob as tracked
IsTrackedAlways(mt, s) == TRUE

\* runner.py:535: key in self.script_mtimes
IsTracked(mt, s) == mt[s] # 0

\* runner.py:535-536: the script is tracked and its time differs
IsModified(mt, s) == IsTracked(mt, s) /\ mt[s] # mtime[s]

\* runner.py:543
RefreshDue(lrt) == now - lrt > Debounce

\* the refresh that serves a discovery: the one queued now, else the last one
\* the poller queued if it has not run yet, else none (0)
ServingRefresh(lrt, q) ==
    IF closed THEN 0
    ELSE IF RefreshDue(lrt) THEN now
    ELSE IF RefreshEv \in Range(q) THEN lrt ELSE 0

\* the last two entries of a sequence
LastTwo(q) == IF Len(q) <= 2 THEN q ELSE SubSeq(q, Len(q) - 1, Len(q))

\* runner.py:532-545: the loop over the scripts of the glob, in the order q,
\* from the state st = [mt, lrt, changed, queue, disc, raised]; f.stat()
\* raises for a script deleted since the glob, and root.after raises once the
\* window is destroyed
RECURSIVE ScriptLoop(_, _)
ScriptLoop(q, st) ==
    IF q = <<>> \/ st.raised THEN st
    ELSE LET s == Head(q) IN
        IF s \notin onDisk THEN [st EXCEPT !.raised = TRUE]
        ELSE IF IsTracked(st.mt, s) THEN
            ScriptLoop(Tail(q),
                IF IsModified(st.mt, s)
                THEN [st EXCEPT !.mt[s] = mtime[s], !.changed = Append(@, s)]
                ELSE st)
        ELSE
            ScriptLoop(Tail(q),
                [st EXCEPT
                    !.mt[s] = mtime[s],
                    !.lrt = IF RefreshDue(st.lrt) THEN now ELSE @,
                    !.queue = IF RefreshDue(st.lrt) /\ ~closed
                              THEN Append(@, RefreshEv) ELSE @,
                    !.disc = LastTwo(Append(@, [t |-> now,
                                        ref |-> ServingRefresh(st.lrt, st.queue)])),
                    !.raised = RefreshDue(st.lrt) /\ closed])

\* runner.py:532-545: the passes of the script loop that are left, with
\* the glob yielding their scripts in the order q, in one step
PollScripts(q) ==
    /\ pollpc = "scripts"
    /\ checking = NotChecking
    /\ q \in Orders(todo)
    /\ LET st == ScriptLoop(q, [mt |-> script_mtimes, lrt |-> last_refresh_time,
                                 changed |-> scripts_changed, queue |-> uiQueue,
                                 disc |-> disc, raised |-> FALSE])
       IN /\ script_mtimes' = st.mt
          /\ last_refresh_time' = st.lrt
          /\ uiQueue' = st.queue
          /\ disc' = st.disc
          /\ IF st.raised
             THEN PollAbort /\ cycle_end' = "raised"
             ELSE /\ pollpc' = "dispatch"
                  /\ todo' = {}
                  /\ scripts_changed' = st.changed
                  /\ UNCHANGED <<data_changed, checking, cycle_end>>
    /\ UNCHANGED <<envVars, ops, HAS_PANDAS, scanVars, watch_threads, uiVars, snapVars, delayedMeta,
                   running, metaThreads, touched, autoOn, owed>>

\* runner.py:533-536, 539: one pass of the script loop for s, up to its
\* tests of script_mtimes. f.stat() raises when s was deleted since the
\* glob; a tracked script with the tracked time needs no assignment.
PollScriptRead(s) ==
    /\ pollpc = "scripts"
    /\ checking = NotChecking
    /\ s \in todo
    /\ IF s \notin onDisk
       THEN PollAbort /\ cycle_end' = "raised"
       ELSE /\ todo' = todo \ {s}
            /\ checking' =
                 IF IsTracked(script_mtimes, s) /\ ~IsModified(script_mtimes, s)
                 THEN NotChecking
                 ELSE [key |-> s, mtime |-> mtime[s],
                       tracked |-> IsTracked(script_mtimes, s)]
            /\ UNCHANGED <<pollpc, data_changed, scripts_changed, cycle_end>>
    /\ UNCHANGED <<envVars, ops, HAS_PANDAS, scanVars, watch_threads, uiVars,
                   snapVars, scriptVars, taskVars, touched, autoOn, owed, disc>>

\* runner.py:537-538, 541-545: the assignments of that pass, made on what
\* the tests found
PollScriptWrite ==
    /\ pollpc = "scripts"
    /\ checking # NotChecking
    /\ script_mtimes' = [script_mtimes EXCEPT ![checking.key] = checking.mtime]
    /\ IF checking.tracked
       THEN /\ scripts_changed' = Append(scripts_changed, checking.key)
            /\ checking' = NotChecking
            /\ UNCHANGED <<last_refresh_time, uiQueue, disc, pollpc, todo,
                           data_changed, cycle_end>>
       ELSE /\ last_refresh_time' =
                 IF RefreshDue(last_refresh_time) THEN now ELSE last_refresh_time
            /\ disc' = LastTwo(Append(disc,
                    [t |-> now, ref |-> ServingRefresh(last_refresh_time, uiQueue)]))
            /\ IF RefreshDue(last_refresh_time) /\ closed
               THEN PollAbort /\ cycle_end' = "raised" /\ UNCHANGED uiQueue
               ELSE /\ uiQueue' = IF RefreshDue(last_refresh_time)
                                  THEN Append(uiQueue, RefreshEv) ELSE uiQueue
                    /\ checking' = NotChecking
                    /\ UNCHANGED <<pollpc, todo, data_changed, scripts_changed,
                                   cycle_end>>
    /\ UNCHANGED <<envVars, ops, HAS_PANDAS, scanVars, watch_threads, uiVars,
                   snapVars, delayedMeta, running, metaThreads, touched, autoOn,
                   owed>>

\* runner.py:548-550
DataReaction ==
    IF data_changed
    THEN <<LogEv(Msg("Data changed -> updating metadata", "-", 0)), MetaEv>>
    ELSE <<>>

\* runner.py:553-556
ScriptReactions ==
    Concat([i \in 1..Len(scripts_changed) |->
              <<LogEv(Msg("modified -> running", scripts_changed[i], 0)),
                RunEv(scripts_changed[i])>>])

\* a variant of Reactions that asks for the executions first
ReactionsScriptsFirst == ScriptReactions \o DataReaction

\* runner.py:547-556: the callbacks of the cycle, in the order of the calls
\* of root.after
Reactions == DataReaction \o ScriptReactions

\* runner.py:547-556: the reactions of the cycle are queued and
\* _check_for_changes returns; root.after raises once the window is destroyed
PollDispatch ==
    /\ pollpc = "dispatch"
    /\ IF closed /\ Reactions # <<>>
       THEN /\ PollAbort
            /\ cycle_end' = "raised"
            /\ UNCHANGED <<uiQueue, owed>>
       ELSE /\ uiQueue' = uiQueue \o Reactions
            /\ owed' = owed \ Range(scripts_changed)
            /\ PollReturn
            /\ cycle_end' = "returned"
    /\ UNCHANGED <<envVars, ops, HAS_PANDAS, scanVars, watch_threads, uiVars, snapVars, scriptVars,
                   delayedMeta, running, metaThreads, touched, autoOn, disc>>

(* --------------------------- specification ---------------------------- *)

Next ==
    \/ \E f \in Files : Touch(f)
    \/ \E f \in Files : Delete(f)
    \/ Tick
    \/ SelectFolder
    \/ ToggleAutoRun
    \/ ClickRefresh
    \/ ClickMetadata
    \/ \E sel \in SUBSET Scripts : ClickRun(sel)
    \/ OnClose
    \/ ProcessExit
    \/ UiLog
    \/ \E bound \in BOOLEAN : UiLogExc(bound)
    \/ UiStatus
    \/ UiRefresh
    \/ UiGenerateMetadata
    \/ UiRunScript
    \/ DelayedMetadata
    \/ \E s \in Scripts, o \in Outcomes : RunFinish(s, o)
    \/ \E ok \in BOOLEAN : MetaFinish(ok)
    \/ \E f \in ReportFiles, c \in {"good", "corrupt"} : WriteData(f, c)
    \/ \E f \in ReportFiles : RemoveData(f)
    \/ \E q \in Orders(Matched) : MetaScan(q)
    \/ PollBegin
    \/ PollExit
    \/ \E f \in DataFiles, seen \in SUBSET DataFiles : PollDataStatError(f, seen)
    \/ \E q \in Orders(todo) : PollScripts(q)
    \/ \E s \in Scripts : PollScriptRead(s)
    \/ PollScriptWrite
    \/ PollDispatch
    \/ PollSleep

Spec == Init /\ [][Next]_vars

(* ------------------------------ scenarios ----------------------------- *)
(* Next has too many behaviours to enumerate, so each group of properties   *)
(* is checked under a specification that takes every step of the program    *)
(* the group depends on from Next, unchanged, and narrows the outside       *)
(* world: which files exist and which buttons are pressed.                  *)

\* Script tracking. The project holds the script s1 and no data file, and
\* pandas is not installed (so no metadata thread runs). The script is
\* created, modified and deleted, the list is refreshed by the button and by
\* the poller, and the script is started by the button and by auto-run; no
\* started run ends within the behaviour.
OneScript == {"s1"}

InitScripts ==
    /\ Init
    /\ ~win32
    /\ onDisk \subseteq OneScript
    /\ HAS_PANDAS = FALSE

NextScripts ==
    \/ \E s \in OneScript : Touch(s)
    \/ \E s \in OneScript : Delete(s)
    \/ SelectFolder
    \/ ToggleAutoRun
    \/ ClickRefresh
    \/ \E sel \in SUBSET OneScript : ClickRun(sel)
    \/ UiLog
    \/ UiRefresh
    \/ UiRunScript
    \/ PollBegin
    \/ \E q \in Orders(todo) : PollScripts(q)
    \/ PollDispatch
    \/ PollSleep

SpecScripts == InitScripts /\ [][NextScripts]_vars

\* Discovery. The project starts empty, the three scripts are created and
\* never modified or deleted, and seconds pass.
InitDiscovery ==
    /\ Init
    /\ ~win32
    /\ onDisk = {}
    /\ HAS_PANDAS = FALSE

NextDiscovery ==
    \/ \E s \in Scripts : s \notin onDisk /\ Touch(s)
    \/ Tick
    \/ SelectFolder
    \/ ToggleAutoRun
    \/ UiRefresh
    \/ PollBegin
    \/ \E q \in Orders(todo) : PollScripts(q)
    \/ PollDispatch
    \/ PollSleep

SpecDiscovery == InitDiscovery /\ [][NextDiscovery]_vars

\* Snapshots. The project holds the two data files and no script, auto-run
\* stays off and pandas is not installed (a requested regeneration logs that
\* it is skipped). The files are created, modified and deleted, also under
\* the scan, and the window may be closed.
InitSnapshot ==
    /\ Init
    /\ ~win32
    /\ onDisk \subseteq DataFiles
    /\ HAS_PANDAS = FALSE

NextSnapshot ==
    \/ \E f \in DataFiles : Touch(f)
    \/ \E f \in DataFiles : Delete(f)
    \/ SelectFolder
    \/ OnClose
    \/ UiLog
    \/ UiGenerateMetadata
    \/ PollBegin
    \/ PollExit
    \/ \E f \in DataFiles, seen \in SUBSET DataFiles : PollDataStatError(f, seen)
    \/ PollDispatch
    \/ PollSleep

SpecSnapshot == InitSnapshot /\ [][NextSnapshot]_vars

\* Data folders and scripts. As above, with the script s1, which is never
\* modified (so nothing is executed) but may be deleted, and auto-run.
InitData ==
    /\ Init
    /\ ~win32
    /\ onDisk \subseteq DataFiles \cup {"s1"}
    /\ HAS_PANDAS = FALSE

NextData ==
    \/ \E f \in DataFiles : Touch(f)
    \/ \E f \in DataFiles \cup {"s1"} : Delete(f)
    \/ SelectFolder
    \/ ToggleAutoRun
    \/ OnClose
    \/ UiLog
    \/ UiGenerateMetadata
    \/ PollBegin
    \/ PollExit
    \/ \E f \in DataFiles, seen \in SUBSET DataFiles : PollDataStatError(f, seen)
    \/ \E q \in Orders(todo) : PollScripts(q)
    \/ PollDispatch
    \/ PollSleep

SpecData == InitData /\ [][NextData]_vars

\* Runs. The script s1 is started with the Run button and ends in every way
\* a run can end; the polling thread is not scheduled.
InitRuns ==
    /\ Init
    /\ ~win32
    /\ onDisk \subseteq OneScript

NextRuns ==
    \/ \E s \in OneScript : Delete(s)
    \/ SelectFolder
    \/ \E sel \in SUBSET OneScript : ClickRun(sel)
    \/ UiLog
    \/ \E bound \in BOOLEAN : UiLogExc(bound)
    \/ UiStatus
    \/ DelayedMetadata
    \/ \E s \in OneScript, o \in Outcomes : RunFinish(s, o)
    \/ \E ok \in BOOLEAN : MetaFinish(ok)

SpecRuns == InitRuns /\ [][NextRuns]_vars

\* The loop. The project holds the data file in1 and the script s1, pandas
\* is installed and auto-run stays off. The script is started with the Run
\* button, also after it was deleted, and the run ends in each of the four
\* ways; metadata generation succeeds or fails; the data file is deleted
\* under the scan; the window may be closed.
LoopFiles == {"in1", "s1"}

InitLoop ==
    /\ Init
    /\ ~win32
    /\ onDisk = LoopFiles
    /\ HAS_PANDAS

NextLoop ==
    \/ \E f \in LoopFiles : Delete(f)
    \/ SelectFolder
    \/ ClickRun({"s1"})
    \/ OnClose
    \/ UiLog
    \/ \E bound \in BOOLEAN : UiLogExc(bound)
    \/ UiStatus
    \/ DelayedMetadata
    \/ \E o \in Outcomes : ~o.out /\ ~o.err /\ RunFinish("s1", o)
    \/ \E ok \in BOOLEAN : MetaFinish(ok)
    \/ PollBegin
    \/ PollExit
    \/ \E seen \in SUBSET {"in1"} : PollDataStatError("in1", seen)
    \/ PollDispatch
    \/ PollSleep

SpecLoop == InitLoop /\ [][NextLoop]_vars

\* Reports. pandas is installed and the project has neither scripts nor
\* watched data files; files of the scanned folder are written (readable or
\* corrupt) and removed, seconds pass, and metadata generations are started
\* by the folder selection and the Metadata button. The polling thread is
\* not scheduled.
InitReport ==
    /\ Init
    /\ onDisk = {}
    /\ HAS_PANDAS

NextReport ==
    \/ \E f \in ReportFiles, c \in {"good", "corrupt"} : WriteData(f, c)
    \/ \E f \in ReportFiles : RemoveData(f)
    \/ Tick
    \/ SelectFolder
    \/ ClickMetadata
    \/ \E q \in Orders(Matched) : MetaScan(q)

SpecReport == InitReport /\ [][NextReport]_vars

\* Interleaving. As the script-tracking scenario, without deletions and
\* runs, and with the passes of the poller's script loop taken one
\* dictionary access at a time, so that the main thread can run between the
\* tests and the assignments of a pass.
InitRace ==
    /\ Init
    /\ ~win32
    /\ onDisk \subseteq OneScript
    /\ HAS_PANDAS = FALSE

NextRace ==
    \/ \E s \in OneScript : Touch(s)
    \/ SelectFolder
    \/ ToggleAutoRun
    \/ ClickRefresh
    \/ UiLog
    \/ UiRefresh
    \/ UiRunScript
    \/ PollBegin
    \/ \E s \in OneScript : PollScriptRead(s)
    \/ PollScriptWrite
    \/ \E q \in Orders(todo) : PollScripts(q)
    \/ PollDispatch
    \/ PollSleep

SpecRace == InitRace /\ [][NextRace]_vars

\* Order of the reactions. The project holds the data file in1 and the
\* scripts s1 and s2, which are all modified and never deleted; pandas is
\* installed, auto-run is switched on and off, and the queued callbacks run.
\* The behaviour ends before the first sleep of the polling thread is over,
\* and no started thread ends within it.
OrderFiles == {"in1", "s1", "s2"}

InitOrder ==
    /\ Init
    /\ ~win32
    /\ onDisk = OrderFiles
    /\ HAS_PANDAS

NextOrder ==
    \/ \E f \in OrderFiles : Touch(f)
    \/ SelectFolder
    \/ ToggleAutoRun
    \/ UiLog
    \/ UiGenerateMetadata
    \/ UiRunScript
    \/ PollBegin
    \/ \E q \in Orders(todo) : PollScripts(q)
    \/ PollDispatch

SpecOrder == InitOrder /\ [][NextOrder]_vars

\* Shutdown. As the loop scenario, and the process exits after the window
\* is closed.
InitStop ==
    /\ Init
    /\ ~win32
    /\ onDisk = LoopFiles
    /\ HAS_PANDAS

NextStop ==
    \/ SelectFolder
    \/ ClickRun({"s1"})
    \/ OnClose
    \/ ProcessExit
    \/ UiLog
    \/ \E bound \in BOOLEAN : UiLogExc(bound)
    \/ UiStatus
    \/ DelayedMetadata
    \/ \E o \in Outcomes : ~o.out /\ ~o.err /\ RunFinish("s1", o)
    \/ \E ok \in BOOLEAN : MetaFinish(ok)
    \/ PollBegin
    \/ PollExit
    \/ PollDispatch
    \/ PollSleep

SpecStop == InitStop /\ [][NextStop]_vars

(* ----------------------------- properties ----------------------------- *)

\* the callbacks the step appends to the Tk queue
Appended == SubSeq(uiQueue', Len(uiQueue) + 1, Len(uiQueue'))

\* the step belongs to the polling thread (pollpc leaves "none" when the
\* main thread starts it)
PollStep == pollpc # "none" /\ pollpc' # pollpc

\* a run() thread ends in this step
RunEnds == \E s \in Scripts : running'[s] < running[s]

\* a metadata thread ends in this step
MetaEnds == metaThreads' < metaThreads

\* _run_script is called for s by this step: from the Tk queue, or by the
\* Run button (which logs one of the two lines of RunLines for s)
RunScriptCalled(s) ==
    \/ /\ ~closed /\ closed' = closed
       /\ uiQueue # <<>>
       /\ Head(uiQueue) = RunEv(s)
       /\ uiQueue' = Tail(uiQueue)
    \/ /\ ops' = ops + 1
       /\ \E i \in DOMAIN ui_out' :
            ui_out'[i] \in {Msg("Running", s, 0), Msg("Script not found", s, 0)}

\* the time the snapshots hold for a data file (0: not in the snapshot)
Snap(f) == IF f \in InputFiles THEN last_input_scan[f] ELSE last_output_scan[f]

\* the status texts a run can report
RunStatuses ==
    {Msg("Completed", "-", 0), Msg("Timed out", "-", 0), Msg("Error", "-", 0)}
    \cup {Msg("Failed (code n)", "-", rc) : rc \in ExitCodes \ {0}}

\* the log line and the status of a timed-out run
TimedOutTexts ==
    {Msg("Script timed out (5 min limit)", "-", 0), Msg("Timed out", "-", 0)}

\* C1. While auto-run is on, every modification of a tracked script leads
\* to an execution of it: a modified script that has not been scheduled
\* since (owed) is still seen as modified by the poller (its tracked time
\* differs from the one on disk), or is in the list of the running cycle
\* that the dispatch will schedule. This fails: _refresh_scripts overwrites
\* the tracked time with the one on disk (runner.py:315), and a cycle that
\* raises drops its list.
C1_ModificationIsExecuted ==
    \A s \in owed : script_mtimes[s] # mtime[s] \/ s \in Range(scripts_changed)

\* C2. Every run() thread that ends, whatever its outcome, asks for one
\* delayed metadata generation (root.after(100, ...)). This fails: the
\* request of runner.py:378 is in the try body after subprocess.run, so a
\* timeout or a launch error skips it.
C2_MetadataAfterEveryRun ==
    [][RunEnds => delayedMeta' = delayedMeta + 1]_vars

\* C3. When the last two scripts the poller discovered were discovered less
\* than Debounce seconds apart, exactly one refresh was scheduled for them:
\* the refresh serving a discovery is the one queued at that discovery, else
\* the one the poller queued before and that has not run yet. This fails: a
\* refresh queued (and run) for an earlier script within the window makes the
\* test of runner.py:543 false for both, and no refresh is scheduled at all.
C3_OneRefreshForTwoNewScripts ==
    Len(disc) = 2 /\ disc[2].t - disc[1].t < Debounce =>
        Cardinality({disc[1].ref, disc[2].ref} \ {0}) = 1

\* C4. The poller schedules the execution of a script only from the list
\* scripts_changed of its cycle, and a script enters that list only if it
\* was tracked before the scan and its tracked time differed from the one
\* on disk; a script seen for the first time is therefore never executed.
C4_DiscoveryNeverRuns ==
    [][/\ \A s \in Scripts :
            RunEv(s) \in Range(Appended) =>
                pollpc = "dispatch" /\ s \in Range(scripts_changed)
       /\ pollpc = "scripts" /\ pollpc' = "dispatch" =>
            \A s \in Range(scripts_changed') :
                script_mtimes[s] # 0 /\ script_mtimes[s] # mtime[s]
       /\ pollpc = "scripts" =>
            \A s \in Scripts :
                script_mtimes[s] = 0 /\ script_mtimes'[s] # 0 =>
                    /\ script_mtimes'[s] = mtime[s]
                    /\ s \notin Range(scripts_changed')]_vars

\* a cycle has discovered a script (tracked, on disk, not yet displayed, the
\* refresh still queued) and is about to dispatch without executing it
C4_Witness ==
    /\ pollpc = "dispatch"
    /\ RefreshEv \in Range(uiQueue)
    /\ \E s \in Scripts :
        /\ s \in onDisk
        /\ s \notin script_vars
        /\ script_mtimes[s] = mtime[s]
        /\ s \notin Range(scripts_changed)

\* C5. Once the watcher runs, every data file on disk that has not been
\* written or deleted since the last completed scan of the data folders
\* (touched is emptied by that scan) has its on-disk time in the snapshot.
C5_SnapshotMatchesDisk ==
    pollpc # "none" =>
        \A f \in DataFiles \cap onDisk : f \notin touched => Snap(f) = mtime[f]

\* a cycle has just scanned a file that was modified after its creation, and
\* holds its new time
C5_Witness ==
    /\ pollpc \in {"scripts", "dispatch"}
    /\ data_changed
    /\ \E f \in DataFiles \cap onDisk :
        f \notin touched /\ mtime[f] >= 2 /\ Snap(f) = mtime[f]

\* C6. A poll cycle that ends while the window is open has queued exactly
\* one _generate_metadata if its scan of the data folders found a new or
\* changed file, and none otherwise. This fails: the request is made at
\* runner.py:548-550, after the script loop, so a cycle whose script loop
\* raises ends without it although data_changed is set.
C6_OneRegenerationPerDataChange ==
    [][(pollpc \in {"scripts", "dispatch"}) /\ pollpc' = "sleep" /\ ~closed =>
        Cardinality({i \in DOMAIN Appended : Appended[i] = MetaEv})
            = (IF data_changed THEN 1 ELSE 0)]_vars

\* C7. A callback queued by a run carries a timed-out text exactly if the
\* run timed out: a timed-out run never reports the line or status of a
\* run that exited (zero or nonzero) or could not be launched, nor the
\* reverse. A run that ends queues exactly one status, one of the four
\* kinds, and all its callbacks come from that one outcome.
C7_TimedOutIsDistinct ==
    /\ [](\A e \in Range(uiQueue) :
            e.by # "-" => (e.by = "timeout" <=> e.m \in TimedOutTexts))
    /\ [][RunEnds =>
            /\ Cardinality({i \in DOMAIN Appended : Appended[i].k = "status"}) = 1
            /\ \A i \in DOMAIN Appended :
                /\ Appended[i].k = "status" => Appended[i].m \in RunStatuses
                /\ Appended[i].by = Appended[1].by
                /\ Appended[i].by \in {"exit0", "exitN", "timeout", "error"}
                /\ Appended[i].by = "exitN" /\ Appended[i].k = "status" =>
                        Appended[i].m.msg = "Failed (code n)"]_vars

\* the observer sees the status of a timed-out run
C7_Witness ==
    /\ status = Msg("Timed out", "-", 0)
    /\ \A s \in Scripts : running[s] = 0

\* C8. _run_script called for a script that is not on disk logs "Script not
\* found", starts no thread for it, leaves the status alone when it is
\* called from the queue, and schedules no metadata generation.
C8_MissingScriptNotRun ==
    [][\A s \in Scripts :
        RunScriptCalled(s) /\ s \notin onDisk =>
            /\ Msg("Script not found", s, 0) \in Range(ui_out')
            /\ Msg("Running", s, 0) \notin Range(ui_out')
            /\ running'[s] = running[s]
            /\ status' # Msg("Running", s, 0) \/ status' = status
            /\ delayedMeta' = delayedMeta
            /\ metaThreads' = metaThreads
            /\ MetaEv \notin Range(Appended)]_vars

\* _run_script has just reported a missing script, which has no thread
C8_Witness ==
    \E s \in Scripts :
        /\ s \notin onDisk
        /\ Msg("Script not found", s, 0) \in Range(ui_out)
        /\ running[s] = 0

\* C9. The polling thread ends only at its while test with the stop flag
\* set. A cycle that raised leaves the thread in its sleep, from which the
\* next cycle starts: the sleep can end while the clock is within the bound,
\* and the cycle can begin while the stop flag is not set. The end of a
\* run (any outcome), of a metadata thread (success or error) and a call of
\* _run_script (script found or not) leave the polling thread where it is.
C9_LoopSurvivesErrors ==
    /\ [](pollpc = "dead" => ~watching)
    /\ [](pollpc = "sleep" /\ now < Debounce + 1 + MaxTicks => ENABLED PollSleep)
    /\ [](pollpc = "loop" /\ watching => ENABLED PollBegin)
    /\ [][/\ PollStep /\ pollpc' = "dead" => pollpc = "loop" /\ ~watching
          /\ PollStep /\ pollpc \in {"scripts", "dispatch"} =>
                pollpc' \in {"dispatch", "sleep"}
          /\ cycle_end' = "raised" /\ cycle_end # "raised" => pollpc' = "sleep"
          /\ RunEnds \/ MetaEnds \/ (\E s \in Scripts : RunScriptCalled(s)) =>
                pollpc' = pollpc]_vars

\* a cycle raised, and the following cycle is under way
C9_Witness ==
    /\ cycle_end = "raised"
    /\ pollpc \in {"scripts", "dispatch"}
    /\ watching

\* C10. A step of a poll cycle that found auto-run off does not reach the
\* scan of the scripts folder, leaves script_mtimes and last_refresh_time
\* unchanged and queues neither an execution nor a refresh; outside the
\* polling thread script_mtimes changes only by _refresh_scripts.
C10_NoScriptScanWhenAutoRunOff ==
    [][/\ PollStep /\ ~autoOn' =>
            /\ pollpc' # "scripts"
            /\ UNCHANGED <<script_mtimes, last_refresh_time>>
            /\ \A i \in DOMAIN Appended : Appended[i].k \notin {"run", "refresh"}
       /\ ~PollStep /\ script_mtimes' # script_mtimes =>
            script_mtimes' = RefreshedMtimes(TRUE)]_vars

\* a cycle that found auto-run off is about to return although a script on
\* disk is untracked or modified
C10_Witness ==
    /\ pollpc = "dispatch"
    /\ ~autoOn
    /\ \E s \in Scripts : s \in onDisk /\ script_mtimes[s] # mtime[s]

\* a run() thread ends in this step with a failure: a nonzero exit, a
\* timeout or a launch error
RunFails ==
    /\ RunEnds
    /\ Appended # <<>>
    /\ Appended[1].by \in {"exitN", "timeout", "error"}

\* a generate() thread ends in this step without having written the reports
MetaFails ==
    /\ MetaEnds
    /\ LogEv(Msg("Metadata updated", "-", 0)) \notin Range(Appended)

\* a call of _check_for_changes ends in this step with an exception
PollFails ==
    /\ PollStep
    /\ pollpc' = "sleep"
    /\ cycle_end' = "raised"

\* _generate_metadata is called by this step: from the Tk queue, by the
\* timer of a finished run, or by a folder selection or the Metadata button
MetadataCalled ==
    \/ /\ ~closed /\ closed' = closed
       /\ uiQueue # <<>>
       /\ Head(uiQueue) = MetaEv
       /\ uiQueue' = Tail(uiQueue)
    \/ closed' = closed /\ delayedMeta' < delayedMeta
    \/ ops' = ops + 1 /\ ~(\E s \in Scripts : RunScriptCalled(s))

\* the step writes a line to the output area or queues one
LogSent ==
    \/ ui_out' # <<>>
    \/ \E i \in DOMAIN Appended : Appended[i].k \in {"log", "log_e"}

\* the step sets the status text or queues a text for it
StatusSent ==
    \/ status' # status
    \/ \E i \in DOMAIN Appended : Appended[i].k = "status"

\* C11. Every step in which a failure occurs (a script not found, a run
\* ending with a nonzero exit, a timeout or a launch error, a metadata
\* thread ending with an error, a poll cycle ending with an exception, a
\* metadata request without pandas) sends a log line and sets the status.
\* This fails: watch_loop only prints the exception to stdout
\* (runner.py:488), and the not-found, metadata-error and missing-pandas
\* paths log a line without touching the status (runner.py:349, 414, 392).
C11_EveryFailureLoggedAndStatus ==
    [][(\/ \E s \in Scripts : RunScriptCalled(s) /\ s \notin onDisk
        \/ RunFails
        \/ MetaFails
        \/ PollFails
        \/ ~HAS_PANDAS /\ MetadataCalled)
       => LogSent /\ StatusSent]_vars

\* the line of a report that says the folder has no data file
NoDataLine == Line("No data files found.", "-", 0)

\* the files the report has a block for
Blocks(r) == {r[i].f : i \in {j \in DOMAIN r : r[j].t = "File"}}

\* C12. A report of a folder in which the globs match no file (the folder
\* is empty or holds only files of other extensions) contains the line "No
\* data files found." and no block; no scan returns an empty report.
C12_NoDataFilesIsStated ==
    /\ [](runs >= 1 =>
            /\ report # <<>>
            /\ report[1].t = "title"
            /\ Matched = {} => NoDataLine \in Range(report) /\ Blocks(report) = {})
    /\ [][report' # report => report' # <<>> /\ report'[1].t = "title"]_vars

\* the folder holds files, none of them a data file, and was scanned
C12_Witness ==
    /\ runs >= 1
    /\ Matched = {}
    /\ \E f \in ReportFiles : folder[f] # "absent"
    /\ NoDataLine \in Range(report)

\* two reports agree in every line but the "Generated:" one
SameExceptStamp(r1, r2) ==
    /\ Len(r1) = Len(r2)
    /\ \A i \in DOMAIN r1 :
        r1[i] = r2[i] \/ (r1[i].t = "Generated" /\ r2[i].t = "Generated")

\* the blocks of a report are in the order of their paths
BlocksSorted(r) ==
    \A i, j \in DOMAIN r :
        r[i].t = "File" /\ r[j].t = "File" /\ i < j => PathKey(r[i].f) < PathKey(r[j].f)

\* C13. A scan of a folder that has not changed since the scan before it
\* returns the lines of that scan, but for the "Generated:" line, whatever
\* the order in which the globs yield the files, and its blocks are in the
\* order of the paths.
C13_ReportIsDeterministic ==
    [][runs >= 1 /\ runs' = 2 =>
        SameExceptStamp(report, report') /\ BlocksSorted(report')]_vars

\* the folder was scanned twice without a change in between, the second
\* time at a later second, and the report has blocks for two .csv files
C13_Witness ==
    /\ runs = 2
    /\ {"a.csv", "b.csv"} \subseteq Blocks(report)
    /\ report[3].n = now
    /\ now > Debounce + 1

\* C14. Every file the globs match has exactly one block in the report of
\* the folder, whatever subset of the files cannot be read, and the block
\* of a file records an error exactly if that file cannot be read. This
\* fails on Windows: the glob matches D.CSV without regard to case, its
\* suffix ".CSV" equals none of those compared at runner.py:441-449, and
\* the file is passed over (runner.py:452-453) without a block.
C14_OneBlockPerMatchingFile ==
    runs >= 1 =>
        /\ Blocks(report) = Matched
        /\ \A f \in Matched :
            Cardinality({i \in DOMAIN report : report[i] = Line("File", f, 0)}) = 1
        /\ \A f \in ReportFiles :
            Line("Error reading", f, 0) \in Range(report)
                <=> (f \in Matched /\ folder[f] = "corrupt")

\* C15. _refresh_scripts (called by the Refresh button, by the callback
\* the poller queues and by a folder selection) does not run while the
\* poller is between the tests and the assignments of a pass of its script
\* loop, and the snapshots change only in a step of the polling thread or
\* in the scan that precedes its start. This fails: the two threads share
\* script_mtimes without a lock or a queue, and the main thread can run
\* _refresh_scripts between runner.py:536 and runner.py:537.
C15_RefreshExcludesPollCycle ==
    [][/\ (ClickRefresh \/ UiRefresh \/ SelectFolder) => checking = NotChecking
       /\ snapVars' # snapVars => pollpc = "loop" \/ ~watching]_vars

\* the executions among a sequence of callbacks, in their order
RunsIn(q) == LET IsRun(e) == e.k = "run" IN SelectSeq(q, IsRun)

\* C16. The callbacks a poll cycle queues hold _generate_metadata exactly
\* if the cycle found a data change, before every execution, and the
\* executions are those of scripts_changed in its order. The Tk queue is
\* served from its head only, and serving _generate_metadata starts the
\* metadata thread and serving an execution starts the thread of that
\* script: the regeneration of a cycle is started before its executions,
\* and these in the order of detection.
C16_MetadataBeforeScripts ==
    [][/\ pollpc = "dispatch" /\ PollStep =>
            /\ (MetaEv \in Range(Appended)) <=> data_changed
            /\ \A i, j \in DOMAIN Appended :
                Appended[i] = MetaEv /\ Appended[j].k = "run" => i < j
            /\ RunsIn(Appended) =
                 [i \in DOMAIN scripts_changed |-> RunEv(scripts_changed[i])]
       /\ ~(pollpc = "dispatch" /\ PollStep) =>
            RunsIn(Appended) = <<>> /\ MetaEv \notin Range(Appended)
       /\ Len(uiQueue') < Len(uiQueue) /\ ~closed' =>
            /\ uiQueue' = Tail(uiQueue)
            /\ Head(uiQueue) = MetaEv => metaThreads' = metaThreads + 1
            /\ \A s \in Scripts :
                Head(uiQueue) = RunEv(s) => running'[s] = running[s] + 1
            /\ Head(uiQueue).k = "log" =>
                 metaThreads' = metaThreads /\ running' = running]_vars

\* the callbacks of one cycle are in the queue: the regeneration, then the
\* executions of s2 and s1, which the glob yielded in that order
C16_Witness ==
    /\ Len(uiQueue) = 6
    /\ uiQueue[2] = MetaEv
    /\ uiQueue[4] = RunEv("s2")
    /\ uiQueue[6] = RunEv("s1")

\* C17. Once the window is closed (watching reset by _on_close) the polling
\* thread begins no cycle: from its while test it can only end, and it can
\* end there; and the shutdown cancels nothing in flight: from the closing
\* step on no run() thread and no generate() thread goes away. This fails
\* in its last part: the threads are daemon threads, and the exit of the
\* process that follows root.destroy() ends them.
C17_StopFlagEndsPolling ==
    /\ [](pollpc = "loop" /\ ~watching => ENABLED PollExit /\ ~ENABLED PollBegin)
    /\ [][/\ closed /\ PollStep /\ pollpc = "loop" => pollpc' = "dead"
          /\ closed' => running' = running /\ metaThreads' = metaThreads]_vars

\* metadata regenerations asked for and not finished: callbacks in the Tk
\* queue, timers of finished runs, and generate() threads
PendingRegenerations ==
    Cardinality({i \in DOMAIN uiQueue : uiQueue[i] = MetaEv}) + delayedMeta + metaThreads

\* C18. At most one metadata regeneration is pending or in flight at a
\* time: a request made while another has not finished is merged with it.
\* This fails: _generate_metadata starts a thread on every call
\* (runner.py:416) and nothing records that one is queued or running.
C18_RegenerationsCoalesced == PendingRegenerations <= 1

\* the time a map that was rebuilt from the disk holds for a file
Current(f) == IF f \in onDisk THEN mtime[f] ELSE 0

\* C19. Selecting a folder when a project is already open rebuilds the watch
\* state: afterwards the Input and Output snapshots and the script tracking
\* map hold exactly the files that exist, each with its current time.
\* This fails: _start_watching returns before _scan_data_folders when the
\* polling thread was started (runner.py:477-478), and neither the snapshots
\* nor script_mtimes are ever cleared (runner.py:313, 497, 502).
C19_ReselectReinitialises ==
    [][project /\ SelectFolder =>
         /\ \A f \in DataFiles : Snap(f)' = Current(f)
         /\ \A s \in Scripts : script_mtimes'[s] = Current(s)]_vars

\* C20. At most one polling thread is alive, whatever folder selections and
\* window close came before: a thread is started only when none was started
\* before and the window is open, the count of live threads is 0 or 1, and
\* a poll cycle is in progress only in that one thread.
C20_AtMostOnePollingLoop ==
    /\ [](/\ watch_threads \in {0, 1}
          /\ watch_threads = 1 <=> pollpc \notin {"none", "dead"})
    /\ [][watch_threads' > watch_threads =>
            SelectFolder /\ ~watching /\ watch_threads = 0 /\ pollpc = "none"]_vars

\* the folder was selected twice and the one polling thread is in a cycle
C20_Witness == ops = 2 /\ watch_threads = 1 /\ pollpc = "dispatch"

\* Discovery with scheduling. The Tk main loop serves the callbacks queued
\* with root.after (runner.py:616) and the polling thread keeps running its
\* loop (runner.py:484-489); the user and the file system owe nothing.
FairDiscovery ==
    /\ WF_vars(UiRefresh)
    /\ WF_vars(PollBegin)
    /\ WF_vars(\E q \in Orders(todo) : PollScripts(q))
    /\ WF_vars(PollDispatch)
    /\ WF_vars(PollSleep)

SpecDiscoveryFair == InitDiscovery /\ [][NextDiscovery]_vars /\ FairDiscovery

\* s is tracked and not displayed. No script is deleted in the discovery
\* scenario, so s was added to script_mtimes by the poller (runner.py:541)
\* and no _refresh_scripts has run since.
DiscoveredNotDisplayed(s) == IsTracked(script_mtimes, s) /\ s \notin script_vars

\* C21. Every script the poller discovers as new is eventually in the
\* displayed list, when queued callbacks are served and the poller keeps
\* running.  This fails: a discovery inside the debounce window queues no
\* refresh (runner.py:543), and the script, now tracked, is never
\* discovered again (runner.py:535).
C21_DiscoveredIsEventuallyDisplayed ==
    \A s \in Scripts : DiscoveredNotDisplayed(s) ~> s \in script_vars

\* runner.py:487-488: the call of _check_for_changes ends in this step by an
\* exception, which watch_loop catches
CycleRaises ==
    /\ pollpc \in {"loop", "scripts", "dispatch"}
    /\ pollpc' = "sleep"
    /\ cycle_end' = "raised"

\* C22. A poll cycle that an error cuts short while the window is open
\* loses no change it has detected: it has updated no snapshot entry
\* (neither before the raising step, which data_changed records, nor in it)
\* and no tracked time of a modified script (scripts_changed, and the
\* raising step itself). The reactions are queued from data_changed and
\* scripts_changed only (runner.py:548-556), and an entry that was updated
\* no longer differs from the disk in the next cycle, so an update made by
\* such a cycle is a reaction that no cycle schedules. This fails: the
\* snapshot and the tracked times are written during the scan
\* (runner.py:517, 527, 537), the reactions are queued after it, and the
\* exception discards the locals in between.
C22_AbortedCycleLosesNoChange ==
    [][CycleRaises /\ ~closed =>
         /\ ~data_changed
         /\ snapVars' = snapVars
         /\ scripts_changed = <<>>
         /\ \A s \in Scripts :
              IsModified(script_mtimes, s) => script_mtimes'[s] = script_mtimes[s]]_vars

====
